---- MODULE Spec2Model ----
(***************************************************************************)
(* Verification model of src/app.py: the retention-coil calculator         *)
(* (reynolds_number, darcy_friction_factor, calculate_retention_coil).     *)
(*                                                                         *)
(* Python floats are binary floating-point numbers.  They are modelled as  *)
(* binary floating-point numbers m * 2^e with a Prec-bit significand,      *)
(* round-to-nearest-even after every operation and an unbounded exponent   *)
(* (so no overflow/underflow).  Division by a zero float raises            *)
(* ZeroDivisionError, math.log10 of a non-positive float raises            *)
(* ValueError, exactly as in Python.                                       *)
(***************************************************************************)
EXTENDS Integers, Sequences, FiniteSets, TLC

\* Width of the significand of the modelled floats, in bits.
Prec == 12

----------------------------------------------------------------------------
(* Binary floating point: [m |-> signed significand, e |-> exponent],      *)
(* value m * 2^e, with m = 0 or 2^(Prec-1) <= |m| < 2^Prec.                *)

Abs(n) == IF n < 0 THEN -n ELSE n

Sgn(n) == IF n < 0 THEN -1 ELSE IF n = 0 THEN 0 ELSE 1

Max(a, b) == IF a >= b THEN a ELSE b

RECURSIVE BitLen(_)
BitLen(n) == IF n = 0 THEN 0 ELSE 1 + BitLen(n \div 2)

FZero == [m |-> 0, e |-> 0]

\* The float nearest to the integer M times 2^E (ties to even).
Norm(M, E) ==
    IF M = 0 THEN FZero
    ELSE LET a  == Abs(M)
             sh == BitLen(a) - Prec
         IN  IF sh <= 0
             THEN [m |-> Sgn(M) * a * 2^(-sh), e |-> E + sh]
             ELSE LET q    == a \div 2^sh
                      r    == a % 2^sh
                      half == 2^(sh - 1)
                      up   == r > half \/ (r = half /\ q % 2 = 1)
                      q1   == IF up THEN q + 1 ELSE q
                  IN  IF q1 = 2^Prec
                      THEN [m |-> Sgn(M) * 2^(Prec - 1), e |-> E + sh + 1]
                      ELSE [m |-> Sgn(M) * q1, e |-> E + sh]

\* float(n) for a Python int n.
FromInt(n) == Norm(n, 0)

FNeg(a) == [m |-> -a.m, e |-> a.e]

\* a * b, correctly rounded.
FMul(a, b) == Norm(a.m * b.m, a.e + b.e)

\* a / b for b # 0, correctly rounded (the remainder is kept as a sticky bit).
FDiv(a, b) ==
    IF a.m = 0 THEN FZero
    ELSE LET num == Abs(a.m) * 2^(Prec + 2)
             q   == num \div Abs(b.m)
             st  == IF num % Abs(b.m) = 0 THEN 0 ELSE 1
         IN  Norm(Sgn(a.m) * Sgn(b.m) * (2 * q + st), a.e - b.e - Prec - 3)

\* a + b, correctly rounded.
FAdd(a, b) ==
    IF a.m = 0 THEN b
    ELSE IF b.m = 0 THEN a
    ELSE LET hi == IF a.e >= b.e THEN a ELSE b
             lo == IF a.e >= b.e THEN b ELSE a
             d  == hi.e - lo.e
         IN  IF d > Prec + 2
             THEN Norm(hi.m * 4 + Sgn(lo.m), hi.e - 2)
             ELSE Norm(hi.m * 2^d + lo.m, lo.e)

FSub(a, b) == FAdd(a, FNeg(b))

\* Comparisons: the rounded difference has the sign of the exact one.
FLess(a, b) == FSub(a, b).m < 0

FLeq(a, b) == FSub(a, b).m <= 0

\* A decimal literal n/d of the source text (both n and d exact floats).
FromDec(n, d) == FDiv(FromInt(n), FromInt(d))

\* math.ceil: the least Python int >= a.
Ceil(a) ==
    IF a.e >= 0 THEN a.m * 2^(a.e)
    ELSE IF -(a.e) > Prec THEN (IF a.m > 0 THEN 1 ELSE 0)
    ELSE IF a.m >= 0 THEN (a.m + 2^(-(a.e)) - 1) \div 2^(-(a.e))
    ELSE -(Abs(a.m) \div 2^(-(a.e)))

----------------------------------------------------------------------------
(* Library functions.  math.log10 and float ** 0.9 are modelled by          *)
(* monotone piecewise-linear interpolation on the significand, exact at    *)
(* the knots; log10 is zero exactly at 1.0 and nowhere else.                *)

\* log2 at 1, 1.25, 1.5, 1.75, 2, in units of 2^-16.
Log2Knots == <<0, 21098, 38336, 52911, 65536>>

\* math.log10(x) for x > 0.
Log10(x) ==
    LET w  == 2^(Prec - 3)
        i  == (x.m - 2^(Prec - 1)) \div w
        m0 == 2^(Prec - 1) + i * w
        t  == Log2Knots[i + 1]
                + ((x.m - m0) * (Log2Knots[i + 2] - Log2Knots[i + 1])) \div w
        l2 == (x.e + Prec - 1) * 2^16 + t
    IN  FMul(Norm(l2, -16), FromDec(30103, 100000))

\* x^0.9 at x = 1, 1.5, 2, in thousandths.
Pow09Knots == <<1000, 1440, 1866>>

\* 2^(j/10) for j = 0..9, in thousandths.
Exp2Tenths == <<1000, 1072, 1149, 1231, 1320, 1414, 1516, 1625, 1741, 1866>>

\* x ** 0.9 for x > 0.
Pow09(x) ==
    LET w   == 2^(Prec - 2)
        i   == (x.m - 2^(Prec - 1)) \div w
        m0  == 2^(Prec - 1) + i * w
        t   == Pow09Knots[i + 1] * w
                 + (x.m - m0) * (Pow09Knots[i + 2] - Pow09Knots[i + 1])
        mu  == FDiv(FromInt(t), FromInt(1000 * w))
        n9  == 9 * (x.e + Prec - 1)
        k   == n9 \div 10
        j   == n9 % 10
        r   == FMul(mu, FromDec(Exp2Tenths[j + 1], 1000))
    IN  [m |-> r.m, e |-> r.e + k]

\* math.pi (355/113 rounds to the same float as pi at this precision)
Pi == FromDec(355, 113)

----------------------------------------------------------------------------
(* Exceptions.  A float expression evaluates to a float or to an error.    *)

ZeroDivisionError == [exc |-> "ZeroDivisionError"]

ValueError == [exc |-> "ValueError"]

IsErr(x) == "exc" \in DOMAIN x

\* Variant of Div that never raises: a zero divisor silently yields a large
\* finite stand-in for infinity.
Div_silent(a, b) == IF b.m = 0 THEN FromInt(2^20) ELSE FDiv(a, b)

\* Python's a / b on floats: raises ZeroDivisionError when b is zero.
Div(a, b) == IF b.m = 0 THEN ZeroDivisionError ELSE FDiv(a, b)

\* Python's math.log10: raises ValueError outside x > 0.
Log10Checked(x) == IF x.m <= 0 THEN ValueError ELSE Log10(x)

\* The outcome of a call: a returned value or a raised exception.
Returned(v) == [kind |-> "returned", val |-> v]

Raised(exc, line) == [kind |-> "raised", exc |-> exc, line |-> line]

----------------------------------------------------------------------------
(* src/app.py                                                               *)

reynolds_number(rho, velocity, diameter_m, mu_pa_s) ==
    Div(FMul(FMul(rho, velocity), diameter_m), mu_pa_s)

\* Variant of IsNoFlow with a strict comparison.
IsNoFlow_strict(re) == FLess(re, FromInt(0))

\* `if re <= 0`
IsNoFlow(re) == FLeq(re, FromInt(0))

\* Variant of IsLaminar that takes re = 2300 as laminar.
IsLaminar_inclusive(re) == FLeq(re, FromInt(2300))

\* `if re < 2300`
IsLaminar(re) == FLess(re, FromInt(2300))

\* A float expression that ends the call when it raises.
OrRaise(v, line) == IF IsErr(v) THEN Raised(v.exc, line) ELSE Returned(v)

\* `(rel_roughness / 3.7) + (5.74 / (re ** 0.9))`
sj_argument(re, rel_roughness) ==
    FAdd(FDiv(rel_roughness, FromDec(37, 10)), FDiv(FromDec(574, 100), Pow09(re)))

\* `0.25 / (math.log10(...) ** 2)`, given the logarithm (or its error)
sj_value(lg) ==
    IF IsErr(lg) THEN Raised(lg.exc, 19)
    ELSE OrRaise(Div(FromDec(25, 100), FMul(lg, lg)), 19)

\* The turbulent branch, given `rel_roughness = roughness_m / diameter_m`
\* (or its error).
SwameeJain(re, rel_roughness) ==
    IF IsErr(rel_roughness) THEN Raised(rel_roughness.exc, 17)
    ELSE sj_value(Log10Checked(sj_argument(re, rel_roughness)))

darcy_friction_factor(re, roughness_m, diameter_m) ==
    IF IsNoFlow(re) THEN Returned(FromInt(0))
    ELSE IF IsLaminar(re) THEN OrRaise(Div(FromInt(64), re), 15)
    ELSE SwameeJain(re, Div(roughness_m, diameter_m))

\* Variant of calc_required_volume_m3 that divides by the retention time.
calc_required_volume_m3_divided(q_m3_s, retention_time_s) ==
    IF retention_time_s.m = 0 THEN FZero ELSE FDiv(q_m3_s, retention_time_s)

\* `required_volume_m3 = q_m3_s * retention_time_s`
calc_required_volume_m3(q_m3_s, retention_time_s) == FMul(q_m3_s, retention_time_s)

\* math.floor: the greatest Python int <= a.
Floor(a) == -Ceil(FNeg(a))

\* Variant of calc_n_straights that rounds the quotient down.
calc_n_straights_floor(quotient) == Max(1, Floor(quotient))

\* `max(1, math.ceil(...))` applied to the quotient length_m / straight_segment_m
calc_n_straights(quotient) == Max(1, Ceil(quotient))

\* `n_uturns = max(0, n_straights - 1)`
calc_n_uturns(n_straights) == Max(0, n_straights - 1)

\* Variant of calc_elbows_90 that counts one elbow per U-turn.
calc_elbows_90_single(n_uturns) == n_uturns

\* `elbows_90 = n_uturns * 2`
calc_elbows_90(n_uturns) == n_uturns * 2

\* Variant of calc_k_total that adds the inlet/outlet loss unconditionally.
calc_k_total_always(elbows_90, k_elbow_90, include_inlet_outlet_k) ==
    FAdd(FMul(FromInt(elbows_90), k_elbow_90), FromDec(15, 10))

\* `k_total = elbows_90 * k_elbow_90`, `if include_inlet_outlet_k: k_total += 1.5`
calc_k_total(elbows_90, k_elbow_90, include_inlet_outlet_k) ==
    LET k_total == FMul(FromInt(elbows_90), k_elbow_90)
    IN  IF include_inlet_outlet_k THEN FAdd(k_total, FromDec(15, 10)) ELSE k_total

\* `dynamic_pressure = rho * (velocity ** 2) / 2.0`
calc_dynamic_pressure(rho, velocity) ==
    FDiv(FMul(rho, FMul(velocity, velocity)), FromInt(2))

\* `dp_distributed_pa = f * (length_m / diameter_m) * dynamic_pressure`, given
\* the ratio length_m / diameter_m
calc_dp_distributed_pa(f, ratio, dynamic_pressure) ==
    FMul(FMul(f, ratio), dynamic_pressure)

\* `dp_local_pa = k_total * dynamic_pressure`
calc_dp_local_pa(k_total, dynamic_pressure) == FMul(k_total, dynamic_pressure)

\* Variant of calc_dp_total_pa that leaves out the local losses.
calc_dp_total_pa_distributed_only(dp_distributed_pa, dp_local_pa) == dp_distributed_pa

\* `dp_total_pa = dp_distributed_pa + dp_local_pa`
calc_dp_total_pa(dp_distributed_pa, dp_local_pa) == FAdd(dp_distributed_pa, dp_local_pa)

\* Variant of result_record without the n_uturns entry.
result_record_short(q_m3_s, velocity, required_volume_m3, length_m, n_straights, n_uturns, elbows_90, re, f, k_total, dp_distributed_pa, dp_local_pa, dp_total_pa) ==
    [flow_m3_s          |-> q_m3_s,
     velocity           |-> velocity,
     required_volume_m3 |-> required_volume_m3,
     length_m           |-> length_m,
     n_straights        |-> n_straights,
     elbows_90          |-> elbows_90,
     re                 |-> re,
     f                  |-> f,
     k_total            |-> k_total,
     dp_distributed_pa  |-> dp_distributed_pa,
     dp_local_pa        |-> dp_local_pa,
     dp_total_pa        |-> dp_total_pa]

\* The dict returned by calculate_retention_coil.
result_record(q_m3_s, velocity, required_volume_m3, length_m, n_straights, n_uturns, elbows_90, re, f, k_total, dp_distributed_pa, dp_local_pa, dp_total_pa) ==
    [flow_m3_s          |-> q_m3_s,
     velocity           |-> velocity,
     required_volume_m3 |-> required_volume_m3,
     length_m           |-> length_m,
     n_straights        |-> n_straights,
     n_uturns           |-> n_uturns,
     elbows_90          |-> elbows_90,
     re                 |-> re,
     f                  |-> f,
     k_total            |-> k_total,
     dp_distributed_pa  |-> dp_distributed_pa,
     dp_local_pa        |-> dp_local_pa,
     dp_total_pa        |-> dp_total_pa]

(* calculate_retention_coil, statement by statement.  A frame is the record *)
(* of the local variables (the nine parameters to begin with); a statement  *)
(* maps a frame to the frame with its assignment made, or to the exception  *)
(* it raises, and passes on an exception raised before it.                  *)

\* `name = v` for an expression v that cannot raise; skipped once an
\* exception is on its way out.
Bind(fr, name, v) == IF IsErr(fr) THEN fr ELSE fr @@ (name :> v)

\* `name = v` for an expression v that may raise.
Assign(fr, name, v, line) ==
    IF IsErr(fr) THEN fr
    ELSE IF IsErr(v) THEN Raised(v.exc, line)
    ELSE fr @@ (name :> v)

\* `name = g(...)` for a call outcome r of a function defined in this file.
AssignReturned(fr, name, r) ==
    IF IsErr(fr) THEN fr
    ELSE IF r.kind = "raised" THEN r
    ELSE fr @@ (name :> r.val)

line_33(fr) == Bind(fr, "q_m3_s", FDiv(fr.flow_m3_h, FromInt(3600)))

line_34(fr) == Bind(fr, "diameter_m", FDiv(fr.diameter_mm, FromInt(1000)))

line_35(fr) == Bind(fr, "roughness_m", FDiv(fr.roughness_mm, FromInt(1000)))

line_36(fr) == Bind(fr, "mu_pa_s", FDiv(fr.mu_mpa_s, FromInt(1000)))

line_38(fr) ==
    Bind(fr, "area", FDiv(FMul(Pi, FMul(fr.diameter_m, fr.diameter_m)), FromInt(4)))

line_39(fr) == Assign(fr, "velocity", Div(fr.q_m3_s, fr.area), 39)

line_41(fr) ==
    Bind(fr, "required_volume_m3",
         calc_required_volume_m3(fr.q_m3_s, fr.retention_time_s))

line_42(fr) == Assign(fr, "length_m", Div(fr.required_volume_m3, fr.area), 42)

\* The quotient is kept in the frame for the rest of the same statement.
line_44_quotient(fr) ==
    Assign(fr, "quotient", Div(fr.length_m, fr.straight_segment_m), 44)

line_44(fr) == Bind(fr, "n_straights", calc_n_straights(fr.quotient))

line_45(fr) == Bind(fr, "n_uturns", calc_n_uturns(fr.n_straights))

line_46(fr) == Bind(fr, "elbows_90", calc_elbows_90(fr.n_uturns))

line_48(fr) ==
    Assign(fr, "re", reynolds_number(fr.rho, fr.velocity, fr.diameter_m, fr.mu_pa_s), 8)

line_49(fr) ==
    AssignReturned(fr, "f", darcy_friction_factor(fr.re, fr.roughness_m, fr.diameter_m))

line_51(fr) ==
    Bind(fr, "k_total",
         calc_k_total(fr.elbows_90, fr.k_elbow_90, fr.include_inlet_outlet_k))

line_55(fr) == Bind(fr, "dynamic_pressure", calc_dynamic_pressure(fr.rho, fr.velocity))

\* The ratio is kept in the frame for the rest of the same statement.
line_56_ratio(fr) == Assign(fr, "ratio", Div(fr.length_m, fr.diameter_m), 56)

line_56(fr) ==
    Bind(fr, "dp_distributed_pa",
         calc_dp_distributed_pa(fr.f, fr.ratio, fr.dynamic_pressure))

line_57(fr) == Bind(fr, "dp_local_pa", calc_dp_local_pa(fr.k_total, fr.dynamic_pressure))

line_58(fr) ==
    Bind(fr, "dp_total_pa", calc_dp_total_pa(fr.dp_distributed_pa, fr.dp_local_pa))

line_60(fr) ==
    IF IsErr(fr) THEN fr
    ELSE Returned(result_record(fr.q_m3_s, fr.velocity, fr.required_volume_m3,
                                fr.length_m, fr.n_straights, fr.n_uturns,
                                fr.elbows_90, fr.re, fr.f, fr.k_total,
                                fr.dp_distributed_pa, fr.dp_local_pa, fr.dp_total_pa))

\* The statements in order, innermost first.
calculate_retention_coil(a) ==
    line_60(line_58(line_57(line_56(line_56_ratio(line_55(line_51(line_49(line_48(line_46(
    line_45(line_44(line_44_quotient(line_42(line_41(line_39(line_38(line_36(
    line_35(line_34(line_33(a)))))))))))))))))))))

----------------------------------------------------------------------------
(* The callers.  A caller holds the nine arguments, calls                   *)
(* calculate_retention_coil, and may call again with a new retention time   *)
(* or with the inlet/outlet option toggled (the page reruns the call on     *)
(* every input change).  darcy_friction_factor is also called on its own.   *)

VARIABLES args, results, prev_args, prev_results, f_args, f_result

vars == <<args, results, prev_args, prev_results, f_args, f_result>>

Pending == [kind |-> "pending"]

NoCall == [called |-> FALSE]

\* Argument values, as decimal literals <<numerator, denominator>>.
FlowValues == {FromDec(0, 1), FromDec(5, 1)}

RetentionTimeValues == {FromDec(1, 1), FromDec(19, 1), FromDec(60, 1), FromDec(120, 1)}

DiameterValues == {FromDec(0, 1), FromDec(20, 1), FromDec(25, 1)}

RoughnessValues == {FromDec(15, 10000), FromDec(7397, 100)}

RhoValues == {FromDec(998, 1)}

MuValues == {FromDec(0, 1), FromDec(1, 1), FromDec(50, 1)}

SegmentValues == {FromDec(0, 1), FromDec(3, 10), FromDec(2, 1)}

ElbowKValues == {FromDec(-1, 2), FromDec(0, 1), FromDec(9, 10)}

ArgValues ==
    [flow_m3_h : FlowValues, retention_time_s : RetentionTimeValues,
     diameter_mm : DiameterValues, roughness_mm : RoughnessValues,
     rho : RhoValues, mu_mpa_s : MuValues,
     straight_segment_m : SegmentValues, k_elbow_90 : ElbowKValues,
     include_inlet_outlet_k : BOOLEAN]

\* Arguments of direct calls of darcy_friction_factor.
ReValues ==
    {FromInt(-1), FromInt(0), FromInt(1), FromInt(2000), FromInt(2299),
     FromInt(2300), FromInt(2301), FromInt(3000), FromInt(5000), FromInt(100000)}

RoughnessMValues ==
    {FromDec(-1, 10), FromDec(15, 10000000), FromDec(4, 100000), FromDec(74, 1000),
     FromDec(925, 10000)}

DiameterMValues == {FromDec(0, 1), FromDec(20, 1000), FromDec(25, 1000)}

FArgValues == [re : ReValues, roughness_m : RoughnessMValues, diameter_m : DiameterMValues]

Init ==
    /\ args \in ArgValues
    /\ results = Pending
    /\ prev_args = NoCall
    /\ prev_results = Pending
    /\ f_args = NoCall
    /\ f_result = Pending

\* `results = calculate_retention_coil(...)`
Calculate ==
    /\ results.kind = "pending"
    /\ results' = calculate_retention_coil(args)
    /\ UNCHANGED <<args, prev_args, prev_results, f_args, f_result>>

\* The call is repeated with another retention time, all else equal.
SetRetentionTime(t) ==
    /\ results.kind # "pending"
    /\ t # args.retention_time_s
    /\ args' = [args EXCEPT !.retention_time_s = t]
    /\ results' = calculate_retention_coil(args')
    /\ prev_args' = args
    /\ prev_results' = results
    /\ UNCHANGED <<f_args, f_result>>

\* The call is repeated with include_inlet_outlet_k toggled, all else equal.
ToggleInletOutlet ==
    /\ results.kind # "pending"
    /\ args' = [args EXCEPT !.include_inlet_outlet_k = ~args.include_inlet_outlet_k]
    /\ results' = calculate_retention_coil(args')
    /\ prev_args' = args
    /\ prev_results' = results
    /\ UNCHANGED <<f_args, f_result>>

Next ==
    \/ Calculate
    \/ \E t \in RetentionTimeValues : SetRetentionTime(t)
    \/ ToggleInletOutlet

Spec == Init /\ [][Next]_vars

\* Direct calls of darcy_friction_factor.
InitDarcy ==
    /\ args = NoCall
    /\ results = Pending
    /\ prev_args = NoCall
    /\ prev_results = Pending
    /\ f_args \in FArgValues
    /\ f_result = Pending

CallDarcy ==
    /\ f_result.kind = "pending"
    /\ f_result' = darcy_friction_factor(f_args.re, f_args.roughness_m, f_args.diameter_m)
    /\ UNCHANGED <<args, results, prev_args, prev_results, f_args>>

NextDarcy == CallDarcy

SpecDarcy == InitDarcy /\ [][NextDarcy]_vars

----------------------------------------------------------------------------
(* Properties.                                                              *)

IsPos(x) == x.m > 0

IsZero(x) == x.m = 0

Min(a, b) == IF a <= b THEN a ELSE b

\* Exact comparison M1 * 2^E1 < M2 * 2^E2 of dyadic rationals.
DyadicLess(M1, E1, M2, E2) ==
    IF M1 = 0 THEN M2 > 0
    ELSE IF M2 = 0 THEN M1 < 0
    ELSE IF Sgn(M1) # Sgn(M2) THEN M1 < 0
    ELSE LET top1 == BitLen(Abs(M1)) + E1
             top2 == BitLen(Abs(M2)) + E2
         IN  IF top1 # top2
             THEN (IF M1 > 0 THEN top1 < top2 ELSE top1 > top2)
             ELSE LET e0 == Min(E1, E2)
                  IN  M1 * 2^(E1 - e0) < M2 * 2^(E2 - e0)

DyadicLeq(M1, E1, M2, E2) == ~DyadicLess(M2, E2, M1, E1)

Called == results.kind # "pending"

ReturnedRecord == results.kind = "returned"

\* The arguments C2 calls valid: all strictly positive, k_elbow_90 >= 0.
AllPositive(a) ==
    /\ IsPos(a.flow_m3_h) /\ IsPos(a.retention_time_s) /\ IsPos(a.diameter_mm)
    /\ IsPos(a.roughness_mm) /\ IsPos(a.rho) /\ IsPos(a.mu_mpa_s)
    /\ IsPos(a.straight_segment_m) /\ a.k_elbow_90.m >= 0

\* C1: a call with diameter_mm = 0 or mu_mpa_s = 0 (the other inputs valid and
\* positive) ends by raising the division-by-zero error (the invalid-input
\* signal) and returns no result record, complete or partial.
C1_ZeroDiameterOrViscosityRaises ==
    (/\ Called
     /\ IsZero(args.diameter_mm) \/ IsZero(args.mu_mpa_s)
     /\ IsPos(args.flow_m3_h) /\ IsPos(args.retention_time_s)
     /\ IsPos(args.roughness_mm) /\ IsPos(args.rho)
     /\ IsPos(args.straight_segment_m) /\ args.k_elbow_90.m >= 0
     /\ args.diameter_mm.m >= 0 /\ args.mu_mpa_s.m >= 0)
    => /\ results.kind = "raised"
       /\ results.exc = "ZeroDivisionError"
       /\ "val" \notin DOMAIN results

\* A call with zero viscosity and a positive diameter has raised inside
\* reynolds_number, after the geometry was already computed.
C1_Witness ==
    /\ Called
    /\ IsZero(args.mu_mpa_s) /\ IsPos(args.diameter_mm) /\ IsPos(args.flow_m3_h)
    /\ results.kind = "raised" /\ results.line = 8

\* C2: for all strictly positive inputs (k_elbow_90 >= 0) the call returns a
\* complete result record and raises no error.
C2_PositiveInputsNeverRaise ==
    (Called /\ AllPositive(args)) => ReturnedRecord

\* C3 (Swamee-Jain value as stated in the claim):
\* 0.25 / (log10((roughness_m/diameter_m)/3.7 + 5.74/re^0.9))^2
C3_SwameeJainArgument(re, roughness_m, diameter_m) ==
    FAdd(FDiv(FDiv(roughness_m, diameter_m), FromDec(37, 10)),
         FDiv(FromDec(574, 100), Pow09(re)))

C3_SwameeJainValue(re, roughness_m, diameter_m) ==
    LET lg == Log10(C3_SwameeJainArgument(re, roughness_m, diameter_m))
    IN  FDiv(FromDec(25, 100), FMul(lg, lg))

\* C3: darcy_friction_factor selects one of three regimes from re alone:
\* re <= 0 gives 0; 0 < re < 2300 gives 64/re; every re >= 2300 (2300 itself
\* included) gives the Swamee-Jain value and never the laminar one.  Roughness
\* and diameter matter only in the third regime (where the call raises
\* exactly when the Swamee-Jain value is undefined).
C3_ThreeRegimes ==
    f_result.kind # "pending" =>
        LET re == f_args.re
            r  == f_args.roughness_m
            d  == f_args.diameter_m
        IN  /\ re.m <= 0 => (f_result.kind = "returned" /\ IsZero(f_result.val))
            /\ (re.m > 0 /\ DyadicLess(re.m, re.e, 2300, 0)) =>
                  /\ f_result.kind = "returned"
                  /\ f_result.val = FDiv(FromInt(64), re)
            /\ DyadicLeq(2300, 0, re.m, re.e) =>
                  /\ f_result.kind = "returned" =>
                        /\ ~IsZero(d)
                        /\ IsPos(C3_SwameeJainArgument(re, r, d))
                        /\ C3_SwameeJainArgument(re, r, d) # FromInt(1)
                        /\ f_result.val = C3_SwameeJainValue(re, r, d)
                        /\ f_result.val # FDiv(FromInt(64), re)
                  /\ f_result.kind = "raised" =>
                        \/ IsZero(d)
                        \/ C3_SwameeJainArgument(re, r, d).m <= 0
                        \/ C3_SwameeJainArgument(re, r, d) = FromInt(1)

\* A direct call at the boundary re = 2300 has returned.
C3_Witness ==
    /\ f_result.kind = "returned"
    /\ f_args.re = FromInt(2300)
    /\ IsPos(f_args.diameter_m)

\* C4 as stated: n_straights >= 1, n_straights * straight_segment_m >= length_m,
\* and (n_straights - 1) * straight_segment_m < length_m when n_straights > 1,
\* on the returned values, whether the product is taken exactly or as the
\* floating-point product.
C4_ExactCover ==
    (ReturnedRecord /\ IsPos(args.straight_segment_m)) =>
        LET n == results.val.n_straights
            s == args.straight_segment_m
            l == results.val.length_m
        IN  /\ n >= 1
            /\ \/ DyadicLeq(l.m, l.e, n * s.m, s.e)
               \/ FLeq(l, FMul(FromInt(n), s))
            /\ n > 1 => \/ DyadicLess((n - 1) * s.m, s.e, l.m, l.e)
                        \/ FLess(FMul(FromInt(n - 1), s), l)

\* C4 (amended): n_straights = max(1, ceil(q)) where q is the rounded
\* floating-point quotient length_m / straight_segment_m: an integer >= 1,
\* n_straights >= q, and n_straights - 1 < q when n_straights > 1.
C4_CoversRoundedQuotient ==
    (ReturnedRecord /\ IsPos(args.straight_segment_m)) =>
        LET n == results.val.n_straights
            q == FDiv(results.val.length_m, args.straight_segment_m)
        IN  /\ n >= 1
            /\ DyadicLeq(q.m, q.e, n, 0)
            /\ n > 1 => DyadicLess(n - 1, 0, q.m, q.e)

\* A returned layout with several straights whose rounded quotient is not an
\* integer (so the ceiling acted).
C4_Witness ==
    /\ ReturnedRecord
    /\ results.val.n_straights = 85
    /\ FDiv(results.val.length_m, args.straight_segment_m) # FromInt(85)

\* C5: n_uturns = max(0, n_straights - 1) = n_straights - 1 >= 0 and
\* elbows_90 = 2 * n_uturns, an even non-negative integer.
C5_ElbowParity ==
    ReturnedRecord =>
        LET r == results.val
        IN  /\ r.n_uturns = Max(0, r.n_straights - 1)
            /\ r.n_uturns = r.n_straights - 1
            /\ r.n_uturns >= 0
            /\ r.elbows_90 = 2 * r.n_uturns
            /\ r.elbows_90 % 2 = 0
            /\ r.elbows_90 >= 0
            /\ r.elbows_90 = 2 * Max(0, r.n_straights - 1)

\* A returned layout with 85 straights, 84 U-turns and 168 elbows.
C5_Witness ==
    /\ ReturnedRecord
    /\ results.val.n_straights = 85
    /\ results.val.elbows_90 = 168

\* C6: two calls that differ only in retention_time_s, t1 <= t2, other inputs
\* valid: length_m, n_straights and elbows_90 of the first are <= those of
\* the second.
C6_SegmentMonotonicity ==
    (/\ ReturnedRecord /\ prev_results.kind = "returned"
     /\ prev_args = [args EXCEPT !.retention_time_s = prev_args.retention_time_s]
     /\ IsPos(args.flow_m3_h) /\ IsPos(args.diameter_mm)
     /\ IsPos(args.straight_segment_m))
    => LET t1 == prev_args.retention_time_s
           t2 == args.retention_time_s
           r1 == prev_results.val
           r2 == results.val
       IN  /\ DyadicLeq(t1.m, t1.e, t2.m, t2.e) =>
                /\ DyadicLeq(r1.length_m.m, r1.length_m.e, r2.length_m.m, r2.length_m.e)
                /\ r1.n_straights <= r2.n_straights
                /\ r1.elbows_90 <= r2.elbows_90
           /\ DyadicLeq(t2.m, t2.e, t1.m, t1.e) =>
                /\ DyadicLeq(r2.length_m.m, r2.length_m.e, r1.length_m.m, r1.length_m.e)
                /\ r2.n_straights <= r1.n_straights
                /\ r2.elbows_90 <= r1.elbows_90

\* The retention time was raised between two returned calls and the layout
\* grew strictly.
C6_Witness ==
    /\ ReturnedRecord /\ prev_results.kind = "returned"
    /\ IsPos(args.flow_m3_h)
    /\ FLess(prev_args.retention_time_s, args.retention_time_s)
    /\ prev_results.val.n_straights < results.val.n_straights
    /\ prev_results.val.elbows_90 < results.val.elbows_90

OutputFields ==
    {"flow_m3_s", "velocity", "required_volume_m3", "length_m", "n_straights",
     "n_uturns", "elbows_90", "re", "f", "k_total", "dp_distributed_pa",
     "dp_local_pa", "dp_total_pa"}

\* C8 as stated: every returned record has exactly fourteen fields.
C8_FourteenFields ==
    ReturnedRecord => Cardinality(DOMAIN results.val) = 14

\* C8 (amended): every returned record has exactly thirteen fields, the
\* output fields the specification lists.
C8_ThirteenFields ==
    ReturnedRecord =>
        /\ DOMAIN results.val = OutputFields
        /\ Cardinality(DOMAIN results.val) = 13

\* A call on valid inputs has returned its record.
C8_Witness ==
    /\ ReturnedRecord
    /\ AllPositive(args)
    /\ "dp_total_pa" \in DOMAIN results.val

\* C9: k_total = elbows_90 * k_elbow_90, plus 1.5 exactly when
\* include_inlet_outlet_k; k_total >= 0 when k_elbow_90 >= 0; and between two
\* calls that differ only in the flag, k_total with it equals k_total
\* without it plus 1.5.
C9_KTotal ==
    ReturnedRecord =>
        LET base == FMul(FromInt(results.val.elbows_90), args.k_elbow_90)
        IN  /\ results.val.k_total =
                  IF args.include_inlet_outlet_k
                  THEN FAdd(base, FromDec(15, 10)) ELSE base
            /\ args.k_elbow_90.m >= 0 => results.val.k_total.m >= 0
            /\ (/\ prev_results.kind = "returned"
                /\ prev_args = [args EXCEPT !.include_inlet_outlet_k =
                                              ~args.include_inlet_outlet_k])
               => IF args.include_inlet_outlet_k
                  THEN results.val.k_total =
                         FAdd(prev_results.val.k_total, FromDec(15, 10))
                  ELSE prev_results.val.k_total =
                         FAdd(results.val.k_total, FromDec(15, 10))

\* The flag was switched on between two returned calls of a layout with elbows.
C9_Witness ==
    /\ ReturnedRecord /\ prev_results.kind = "returned"
    /\ args.include_inlet_outlet_k /\ ~prev_args.include_inlet_outlet_k
    /\ results.val.elbows_90 > 0
    /\ IsPos(args.k_elbow_90)
    /\ results.val.k_total # prev_results.val.k_total

\* C10: dp_total_pa = dp_distributed_pa + dp_local_pa, with
\* dp_distributed_pa = f * (length_m / diameter_m) * q_dyn and
\* dp_local_pa = k_total * q_dyn for the same q_dyn = rho * velocity^2 / 2;
\* the total agrees with (f * L / D + k_total) * q_dyn up to rounding
\* (4 units in the last place).
C10_PressureDecomposition ==
    ReturnedRecord =>
        LET r      == results.val
            d      == FDiv(args.diameter_mm, FromInt(1000))
            q_dyn  == FDiv(FMul(args.rho, FMul(r.velocity, r.velocity)), FromInt(2))
            closed == FMul(FAdd(FMul(r.f, FDiv(r.length_m, d)), r.k_total), q_dyn)
            diff   == FSub(r.dp_total_pa, closed)
        IN  /\ r.dp_total_pa = FAdd(r.dp_distributed_pa, r.dp_local_pa)
            /\ r.dp_distributed_pa = FMul(FMul(r.f, FDiv(r.length_m, d)), q_dyn)
            /\ r.dp_local_pa = FMul(r.k_total, q_dyn)
            /\ DyadicLeq(Abs(diff.m), diff.e, 4, r.dp_total_pa.e)

\* A turbulent call has returned with both pressure-drop terms positive.
C10_Witness ==
    /\ ReturnedRecord
    /\ IsPos(results.val.dp_distributed_pa)
    /\ IsPos(results.val.dp_local_pa)
    /\ DyadicLeq(2300, 0, results.val.re.m, results.val.re.e)

====
